---- MODULE Spec2Model ----
(***************************************************************************)
(* The NCERT knowledge-graph dashboards as state machines.                 *)
(*                                                                         *)
(*   app_scnce_ch7_8.py  the two-grade dashboard: a Streamlit script that  *)
(*                       is re-executed top to bottom on every user        *)
(*                       interaction (a "page run"), once per session, and *)
(*                       that shares learned_concepts.json between all     *)
(*                       sessions.                                         *)
(*   app_ch7.py          the single-grade dashboard.                       *)
(*                                                                         *)
(* Python values that the code inspects with isinstance() are tagged       *)
(* records [kind, val]; a Python str is the sequence of its characters, so *)
(* that startswith(), replace() and the f-string node identifiers are      *)
(* computed, not assumed.                                                  *)
(***************************************************************************)
EXTENDS Integers, Sequences, FiniteSets, TLC

\* ------------------------------------------------------------------------
\* Bounds of the model
\* ------------------------------------------------------------------------
\* Longest concept list drawn for a grade by the data-driven specifications.
MaxConcepts == 2
\* Longest learned list drawn for a domain of the persisted store.
MaxLearned == 2
\* Longest raw activity list drawn for the single-grade dashboard.
MaxActivities == 2

\* ------------------------------------------------------------------------
\* Python strings
\* ------------------------------------------------------------------------
\* The tier prefixes of the node identifiers (f"domain::{...}",
\* f"strand::{...}", f"concept::{...}").
PREFIX_DOMAIN == <<"d", "o", "m", "a", "i", "n", ":", ":">>
PREFIX_STRAND == <<"s", "t", "r", "a", "n", "d", ":", ":">>
PREFIX_CONCEPT == <<"c", "o", "n", "c", "e", "p", "t", ":", ":">>

\* str.startswith(prefix)
StartsWith(s, prefix) ==
    /\ Len(s) >= Len(prefix)
    /\ SubSeq(s, 1, Len(prefix)) = prefix

\* str.replace(old, ""): every non-overlapping occurrence of old, scanned
\* from the left, is removed.
RECURSIVE StrRemoveAll(_, _)
StrRemoveAll(s, old) ==
    IF Len(s) < Len(old) THEN s
    ELSE IF StartsWith(s, old)
         THEN StrRemoveAll(SubSeq(s, Len(old) + 1, Len(s)), old)
         ELSE <<Head(s)>> \o StrRemoveAll(Tail(s), old)

\* ------------------------------------------------------------------------
\* Python values
\* ------------------------------------------------------------------------
PyNone == [kind |-> "NoneType", val |-> <<>>]
PyStr(s) == [kind |-> "str", val |-> s]
PyList(items) == [kind |-> "list", val |-> items]
PyDict(d) == [kind |-> "dict", val |-> d]
PyInt(n) == [kind |-> "int", val |-> n]

\* bool(v), as `if v:` and `and` evaluate it
Truthy(v) ==
    CASE v.kind = "NoneType" -> FALSE
      [] v.kind = "str" -> v.val # <<>>
      [] v.kind = "list" -> v.val # <<>>
      [] v.kind = "dict" -> DOMAIN v.val # {}
      [] v.kind = "int" -> v.val # 0
      [] OTHER -> TRUE

\* dict.get(key) with the default None
DictGet(d, key) == IF key \in DOMAIN d THEN d[key] ELSE PyNone

\* dict.setdefault(key, default), as the resulting dict
SetDefault(d, key, default) ==
    IF key \in DOMAIN d THEN d
    ELSE [k \in DOMAIN d \cup {key} |-> IF k = key THEN default ELSE d[k]]

\* d[key] = value, as the resulting dict
DictPut(d, key, value) ==
    [k \in DOMAIN d \cup {key} |-> IF k = key THEN value ELSE d[k]]

\* The empty dict {}
EmptyDict == [k \in {} |-> <<>>]

\* `x in lst` for a list
InList(x, lst) == \E i \in 1..Len(lst) : lst[i] = x

\* set(lst)
ListSet(lst) == {lst[i] : i \in 1..Len(lst)}

\* list.remove(x): the first occurrence is removed (x is in the list)
RECURSIVE ListRemove(_, _)
ListRemove(lst, x) ==
    IF lst = <<>> THEN <<>>
    ELSE IF Head(lst) = x THEN Tail(lst)
         ELSE <<Head(lst)>> \o ListRemove(Tail(lst), x)

\* The distinct elements of a list in the order of their first occurrence:
\* the key order of a dict filled by setdefault() over the list.
RECURSIVE FirstOccurrences(_)
FirstOccurrences(lst) ==
    IF lst = <<>> THEN <<>>
    ELSE LET init == FirstOccurrences(SubSeq(lst, 1, Len(lst) - 1))
             x == lst[Len(lst)]
         IN IF InList(x, init) THEN init ELSE Append(init, x)

\* The concatenation of a list of lists
RECURSIVE Flatten(_)
Flatten(lists) ==
    IF lists = <<>> THEN <<>> ELSE Head(lists) \o Flatten(Tail(lists))

\* All lists over S of length at most n
ListsUpTo(S, n) == UNION {[1..k -> S] : k \in 0..n}

\* ------------------------------------------------------------------------
\* Curriculum data (the parsed grade JSON documents)
\* ------------------------------------------------------------------------
\* A concept is the record [concept_name, domain, strand, interconnections]
\* of its JSON object; an absent "interconnections" key reads as the empty
\* list (c.get("interconnections", [])).  An activity is a Python value: a
\* dict of its keys, or whatever else the JSON array holds.
Concept(name, domain, strand, links) ==
    [concept_name |-> name, domain |-> domain, strand |-> strand,
     interconnections |-> links]

Activity(name, parent) ==
    PyDict([activity_name |-> PyStr(name), parent_concept |-> PyStr(parent)])

GRADES == {"7", "8"}

\* concept_map = {c["concept_name"]: c for c in concepts}: the last record
\* of a name wins.
ConceptMap(concepts) ==
    [n \in {concepts[i].concept_name : i \in 1..Len(concepts)} |->
        concepts[CHOOSE i \in 1..Len(concepts) :
            /\ concepts[i].concept_name = n
            /\ \A j \in (i + 1)..Len(concepts) : concepts[j].concept_name # n]]

\* concept_names = set(concept_map.keys())
ConceptNames(concepts) == DOMAIN ConceptMap(concepts)

\* concepts_with_activities = {a["parent_concept"] for a in activities
\*                             if a.get("parent_concept")}
ConceptsWithActivities(activities) ==
    {activities[i].val["parent_concept"] : i \in
        {j \in 1..Len(activities) :
            Truthy(DictGet(activities[j].val, "parent_concept"))}}

\* ------------------------------------------------------------------------
\* Graph builder
\* ------------------------------------------------------------------------
\* The keys of `domains` in insertion order
DomainKeys(concepts) ==
    FirstOccurrences([i \in 1..Len(concepts) |-> concepts[i].domain])

\* The keys of `strands`, the (domain, strand) pairs, in insertion order
StrandKeys(concepts) ==
    FirstOccurrences([i \in 1..Len(concepts) |->
        <<concepts[i].domain, concepts[i].strand>>])

\* strands[(domain, strand)]: the concept names appended under the pair
RECURSIVE StrandConcepts(_, _)
StrandConcepts(concepts, key) ==
    IF concepts = <<>> THEN <<>>
    ELSE LET c == Head(concepts)
             rest == StrandConcepts(Tail(concepts), key)
         IN IF <<c.domain, c.strand>> = key
            THEN <<c.concept_name>> \o rest ELSE rest

DomainNodes(concepts) ==
    LET ks == DomainKeys(concepts)
    IN [i \in 1..Len(ks) |->
           [id |-> PREFIX_DOMAIN \o ks[i], label |-> ks[i], shape |-> "box"]]

StrandNodes(concepts) ==
    LET ks == StrandKeys(concepts)
    IN [i \in 1..Len(ks) |->
           [id |-> PREFIX_STRAND \o ks[i][2], label |-> ks[i][2],
            shape |-> "ellipse"]]

ConceptNodes(concepts, activities) ==
    [i \in 1..Len(concepts) |->
        [id |-> PREFIX_CONCEPT \o concepts[i].concept_name,
         label |-> concepts[i].concept_name,
         shape |-> "dot",
         borderWidth |->
            IF PyStr(concepts[i].concept_name)
                   \in ConceptsWithActivities(activities)
            THEN 3 ELSE 1]]

\* nodes, after the three loops
BuildNodes(concepts, activities) ==
    DomainNodes(concepts) \o StrandNodes(concepts)
        \o ConceptNodes(concepts, activities)

\* The domain -> strand edges.  The strands of a domain are a Python set;
\* its iteration order is taken to be the insertion order.
DomainStrandEdges(concepts) ==
    LET ds == DomainKeys(concepts)
        ks == StrandKeys(concepts)
        OfDomain(d) ==
            Flatten([i \in 1..Len(ks) |->
                IF ks[i][1] = d
                THEN << [source |-> PREFIX_DOMAIN \o d,
                         target |-> PREFIX_STRAND \o ks[i][2],
                         color |-> "#cccccc"] >>
                ELSE <<>>])
    IN Flatten([i \in 1..Len(ds) |-> OfDomain(ds[i])])

\* The strand -> concept edges
StrandConceptEdges(concepts) ==
    LET ks == StrandKeys(concepts)
        OfStrand(key) ==
            LET clist == StrandConcepts(concepts, key)
            IN [j \in 1..Len(clist) |->
                   [source |-> PREFIX_STRAND \o key[2],
                    target |-> PREFIX_CONCEPT \o clist[j],
                    color |-> "#dddddd"]]
    IN Flatten([i \in 1..Len(ks) |-> OfStrand(ks[i])])

\* A link test that takes every name for a concept name
LinkAlwaysResolves(linked, concept_names) == TRUE

\* `if linked in concept_names`
LinkResolves(linked, concept_names) == linked \in concept_names

\* The lateral edges of the interconnections
InterconnectionEdges(concepts) ==
    LET names == ConceptNames(concepts)
        OfConcept(c) ==
            Flatten([j \in 1..Len(c.interconnections) |->
                IF LinkResolves(c.interconnections[j], names)
                THEN << [source |-> PREFIX_CONCEPT \o c.concept_name,
                         target |-> PREFIX_CONCEPT \o c.interconnections[j],
                         color |-> "#ff9999"] >>
                ELSE <<>>])
    IN Flatten([i \in 1..Len(concepts) |-> OfConcept(concepts[i])])

\* edges, after the three loops
BuildEdges(concepts) ==
    DomainStrandEdges(concepts) \o StrandConceptEdges(concepts)
        \o InterconnectionEdges(concepts)

\* ------------------------------------------------------------------------
\* Persistence of the learned store (learned_concepts.json)
\* ------------------------------------------------------------------------
\* The file is absent, or holds the JSON document last dumped into it:
\* { grade: { domain: [concept_name, ...] } }.
NoFile == [exists |-> FALSE, content |-> EmptyDict]

\* load_learned_concepts()
LoadLearnedConcepts(f) == IF f.exists THEN f.content ELSE EmptyDict

\* A save that merges the document into the file's content instead of
\* replacing it
SaveMergedWithFile(f, data) ==
    LET old == LoadLearnedConcepts(f)
        ListOf(store, g, d) ==
            IF g \in DOMAIN store /\ d \in DOMAIN store[g]
            THEN store[g][d] ELSE <<>>
        DomainsOf(store, g) == IF g \in DOMAIN store THEN DOMAIN store[g] ELSE {}
    IN [exists |-> TRUE,
        content |->
            [g \in DOMAIN old \cup DOMAIN data |->
                [d \in DomainsOf(old, g) \cup DomainsOf(data, g) |->
                    FirstOccurrences(ListOf(data, g, d) \o ListOf(old, g, d))]]]

\* save_learned_concepts(data): the whole document replaces the file
SaveLearnedConcepts(f, data) == [exists |-> TRUE, content |-> data]

\* ------------------------------------------------------------------------
\* Progress
\* ------------------------------------------------------------------------
\* round((learned / total) * 100, 1), in tenths of a percent.  Python rounds
\* a tie to the even digit.
RoundPercent(learned, total) ==
    LET x == 1000 * learned
        q == x \div total
        r == x % total
    IN IF 2 * r < total THEN q
       ELSE IF 2 * r > total THEN q + 1
       ELSE IF q % 2 = 0 THEN q ELSE q + 1

\* domain_totals[d]: the number of concept records of domain d
DomainTotal(concepts, d) ==
    Cardinality({i \in 1..Len(concepts) : concepts[i].domain = d})

\* domain_learned[d] = len(set(learned_list))
DomainLearned(learned_list) == Cardinality(ListSet(learned_list))

\* compute_domain_progress(concepts, learned_store, grade)
ComputeDomainProgress(concepts, store, g) ==
    LET of_grade == IF g \in DOMAIN store THEN store[g] ELSE EmptyDict
    IN [d \in {concepts[i].domain : i \in 1..Len(concepts)} |->
           RoundPercent(
               IF d \in DOMAIN of_grade THEN DomainLearned(of_grade[d]) ELSE 0,
               DomainTotal(concepts, d))]

\* ------------------------------------------------------------------------
\* Click normalization of the two-grade dashboard
\* ------------------------------------------------------------------------
\* x[0] for the value of a "nodes" key or a list
FirstItem(v) ==
    IF v.kind = "str" THEN PyStr(<<v.val[1]>>) ELSE v.val[1]

\* Whether the normalization raises: x[0] on a truthy value that is neither
\* a list nor a str
ClickRaises(selected) ==
    /\ selected.kind = "dict"
    /\ Truthy(DictGet(selected.val, "nodes"))
    /\ DictGet(selected.val, "nodes").kind \notin {"list", "str"}

\* clicked, after the if / elif / elif
Clicked(selected) ==
    IF selected.kind = "dict" /\ Truthy(DictGet(selected.val, "nodes"))
    THEN FirstItem(selected.val["nodes"])
    ELSE IF selected.kind = "list" /\ Truthy(selected)
    THEN FirstItem(selected)
    ELSE IF selected.kind = "str" THEN selected
    ELSE PyNone

\* A click test that leaves out the tier prefix
IsAnyStrClick(clicked) == clicked.kind = "str"

\* isinstance(clicked, str) and clicked.startswith("concept::")
IsConceptClick(clicked) ==
    clicked.kind = "str" /\ StartsWith(clicked.val, PREFIX_CONCEPT)

\* clicked.replace("concept::", "")
StripConceptPrefix(clicked) == PyStr(StrRemoveAll(clicked.val, PREFIX_CONCEPT))

\* What the normalization yields for a raw payload: the value it assigns to
\* the selection, or None when it assigns nothing.
NormalizeClick(selected) ==
    IF IsConceptClick(Clicked(selected))
    THEN StripConceptPrefix(Clicked(selected))
    ELSE PyNone

\* Which of the raw shapes a payload has: an object with a "nodes" list
\* ("nodes"), a bare list ("list"), a bare string ("str"), an object with a
\* "node" or "id" key ("node_id"); None ("none") when nothing is clicked.
PayloadShape(selected) ==
    CASE selected.kind = "NoneType" -> "none"
      [] selected.kind = "str" -> "str"
      [] selected.kind = "list" -> "list"
      [] selected.kind = "dict" /\ "nodes" \in DOMAIN selected.val ->
            IF selected.val["nodes"].kind = "list" THEN "nodes" ELSE "other"
      [] selected.kind = "dict" /\ "nodes" \notin DOMAIN selected.val ->
            IF {"node", "id"} \cap DOMAIN selected.val # {}
            THEN "node_id" ELSE "other"
      [] OTHER -> "other"

\* st.session_state.selected_concept after the normalization
SelectionAfterClick(current, selected) ==
    IF IsConceptClick(Clicked(selected))
    THEN StripConceptPrefix(Clicked(selected))
    ELSE current

\* ------------------------------------------------------------------------
\* Session state re-validation of the two-grade dashboard
\* ------------------------------------------------------------------------
\* `x in concept_names` for a Python value
IsConceptName(v, concept_names) == v.kind = "str" /\ v.val \in concept_names

\* A re-validation that leaves out the elif
RevalidateAbsentOnly(state, concept_names) ==
    IF "selected_concept" \notin DOMAIN state
    THEN DictPut(state, "selected_concept", PyNone)
    ELSE state

\* if "selected_concept" not in st.session_state: ... = None
\* elif st.session_state.selected_concept not in concept_names: ... = None
Revalidate(state, concept_names) ==
    IF "selected_concept" \notin DOMAIN state
    THEN DictPut(state, "selected_concept", PyNone)
    ELSE IF ~IsConceptName(state["selected_concept"], concept_names)
    THEN DictPut(state, "selected_concept", PyNone)
    ELSE state

\* ------------------------------------------------------------------------
\* The mark-learned toggle
\* ------------------------------------------------------------------------
\* A toggle that leaves out the removal
ToggledListNeverRemoved(lst, concept, mark_learned) ==
    IF mark_learned /\ ~InList(concept, lst) THEN Append(lst, concept) ELSE lst

\* The list of the domain after the two `if`s
ToggledList(lst, concept, mark_learned) ==
    LET already_learned == InList(concept, lst)
    IN IF mark_learned /\ ~already_learned THEN Append(lst, concept)
       ELSE IF ~mark_learned /\ already_learned THEN ListRemove(lst, concept)
       ELSE lst

\* A toggle that writes on every run, whatever the learned state
ToggleKindOfCheckbox(lst, concept, mark_learned) ==
    IF mark_learned THEN "add" ELSE "remove"

\* Which transition the toggle takes: "add", "remove", or "none"
ToggleKind(lst, concept, mark_learned) ==
    LET already_learned == InList(concept, lst)
    IN IF mark_learned /\ ~already_learned THEN "add"
       ELSE IF ~mark_learned /\ already_learned THEN "remove"
       ELSE "none"

\* A toggle that takes the concept for the key and the domain for the item
ToggleStoreSwapped(store, g, domain, concept, mark_learned) ==
    LET of_grade == SetDefault(store[g], concept, <<>>)
    IN DictPut(store, g,
           DictPut(of_grade, concept,
               ToggledList(of_grade[concept], domain, mark_learned)))

\* learned_store after learned_store[grade].setdefault(domain, []) and the
\* append or remove
ToggleStore(store, g, domain, concept, mark_learned) ==
    LET of_grade == SetDefault(store[g], domain, <<>>)
    IN DictPut(store, g,
           DictPut(of_grade, domain,
               ToggledList(of_grade[domain], concept, mark_learned)))

\* ------------------------------------------------------------------------
\* The curriculum data files
\* ------------------------------------------------------------------------
\* A data file that json.load reads, one that open() does not find, and one
\* whose text is no JSON
DataFile(document) == [status |-> "ok", document |-> document]
AbsentFile == [status |-> "absent", document |-> EmptyDict]
MalformedFile == [status |-> "malformed", document |-> EmptyDict]

\* The files from which load_all_data() returns all_data
WellFormed(all_data) == [g \in GRADES |-> DataFile(all_data[g])]

\* What open() and json.load() raise on a data file, "" when nothing
FileRaises(f) ==
    IF f.status = "absent" THEN "FileNotFoundError"
    ELSE IF f.status = "malformed" THEN "JSONDecodeError"
    ELSE ""

\* load_all_data(): grade 7 is read first, then grade 8; the first file
\* that raises ends the call
LoadAllData(files) ==
    IF FileRaises(files["7"]) # ""
    THEN [raised |-> FileRaises(files["7"]), value |-> EmptyDict]
    ELSE IF FileRaises(files["8"]) # ""
    THEN [raised |-> FileRaises(files["8"]), value |-> EmptyDict]
    ELSE [raised |-> "",
          value |-> [g \in GRADES |-> files[g].document]]

\* ALL_DATA while the cache holds no value
NotLoaded == EmptyDict

\* ------------------------------------------------------------------------
\* State
\* ------------------------------------------------------------------------
VARIABLES
    data_files,     \* data/grade7_knowledge_base.json and its grade-8 twin:
                    \* per grade, whether the file is well-formed ("ok"),
                    \* "absent" or "malformed", and its document
    ALL_DATA,       \* load_all_data(): grade -> [concepts, activities];
                    \* NotLoaded while st.cache_data holds no value for it
    file,           \* learned_concepts.json, shared by all sessions
    session_state,  \* st.session_state of each session
    pc,             \* each session's script: "idle" or "running"
    grade,          \* the script's `grade` of each session's current run
    learned_store,  \* the script's `learned_store` of each session's run
    graph,          \* the nodes and edges each session last handed to agraph
    entry,          \* observation: the selection a session's run started with
    last,           \* observation: the page run that completed last: its
                    \* session and grade, the selection it started with
                    \* (entry), what the normalization yielded (click), the
                    \* selection the side panel read (panel), how it ended
                    \* (outcome), the toggle it took (toggled, concept,
                    \* domain, saved), the progress of the store as loaded
                    \* (before) and as displayed (after), and, when it
                    \* removed the concept that the run before it had added
                    \* (undo), the progress before that addition (prior)
    acked,          \* observation: the additions each session has saved
                    \* that no toggle has removed since
    click_raw,      \* a raw click payload handed to the normalization
    click_result,   \* what the normalization yielded for it, and for that
    ch7_data,       \* single-grade dashboard: load_data()
    ch7_session_state,  \* single-grade dashboard: st.session_state
    ch7_run         \* single-grade dashboard: what the last page run of the
                    \* script computed (activities and unlinked_activities
                    \* as the positions of their records in raw_activities)

vars == <<data_files, ALL_DATA, file, session_state, pc, grade, learned_store, graph,
          entry, last, acked, click_raw, click_result,
          ch7_data, ch7_session_state, ch7_run>>

\* The variables of the two-grade sessions, and those of the normalization
\* taken alone
session_vars == <<data_files, ALL_DATA, file, session_state, pc, grade, learned_store,
                  graph, entry, last, acked>>
click_vars == <<click_raw, click_result>>
ch7_vars == <<ch7_data, ch7_session_state, ch7_run>>

Sessions == {1, 2}

\* st.session_state.selected_concept, None when the key is not set
Selection(state) == DictGet(state, "selected_concept")

\* The record of `last` before any run has completed
NoRun ==
    [session |-> 0, grade |-> "", entry |-> PyNone, click |-> PyNone,
     panel |-> PyNone, outcome |-> "none", toggled |-> "none",
     concept |-> <<>>, domain |-> <<>>, saved |-> FALSE,
     before |-> EmptyDict, after |-> EmptyDict,
     undo |-> FALSE, prior |-> EmptyDict]

\* The state of the sessions before their first page run
InitSessions ==
    /\ file = NoFile
    /\ session_state = [s \in Sessions |-> EmptyDict]
    /\ pc = [s \in Sessions |-> "idle"]
    /\ grade = [s \in Sessions |-> ""]
    /\ learned_store = [s \in Sessions |-> EmptyDict]
    /\ graph = [s \in Sessions |-> [nodes |-> <<>>, edges |-> <<>>]]
    /\ entry = [s \in Sessions |-> PyNone]
    /\ last = NoRun
    /\ acked = [s \in Sessions |-> {}]

\* ------------------------------------------------------------------------
\* A page run of the two-grade dashboard, first half, up to the call of
\* agraph(): the grade radio, the data of the grade, the load of the learned
\* store, the re-validation of the selection and the build of the graph.
\* ------------------------------------------------------------------------
\* The first half on the curriculum data all_data that load_all_data()
\* returned
StartRun(s, g, all_data) ==
    /\ pc[s] = "idle"
    /\ pc' = [pc EXCEPT ![s] = "running"]
    /\ grade' = [grade EXCEPT ![s] = g]
    /\ learned_store' = [learned_store EXCEPT ![s] =
           SetDefault(LoadLearnedConcepts(file), g, EmptyDict)]
    /\ session_state' = [session_state EXCEPT ![s] =
           Revalidate(session_state[s], ConceptNames(all_data[g].concepts))]
    /\ graph' = [graph EXCEPT ![s] =
           [nodes |-> BuildNodes(all_data[g].concepts, all_data[g].activities),
            edges |-> BuildEdges(all_data[g].concepts)]]
    /\ entry' = [entry EXCEPT ![s] = Selection(session_state[s])]
    /\ UNCHANGED <<data_files, file, last, acked>>
    /\ UNCHANGED <<click_vars, ch7_vars>>

\* The run finds the curriculum data in the cache of st.cache_data
RunStart(s, g) ==
    /\ ALL_DATA # NotLoaded
    /\ StartRun(s, g, ALL_DATA)
    /\ UNCHANGED ALL_DATA

\* The run finds the cache empty and load_all_data() reads the two files:
\* when it raises, the run ends there, before the grade radio, and nothing
\* is cached; otherwise its value is cached and the run goes on
RunLoad(s, g) ==
    /\ pc[s] = "idle"
    /\ ALL_DATA = NotLoaded
    /\ \E loaded \in {LoadAllData(data_files)} :
           IF loaded.raised = ""
           THEN /\ ALL_DATA' = loaded.value
                /\ StartRun(s, g, loaded.value)
           ELSE /\ last' = [NoRun EXCEPT !.session = s, !.grade = g,
                                         !.outcome = loaded.raised]
                /\ UNCHANGED <<data_files, ALL_DATA, file, session_state, pc,
                               grade, learned_store, graph, entry, acked>>
                /\ UNCHANGED <<click_vars, ch7_vars>>

\* ------------------------------------------------------------------------
\* A page run of the two-grade dashboard, second half, from the return of
\* agraph(): the click payload `selected` is normalized, the side panel reads
\* the selection, the checkbox returns `mark_learned`, the toggle is saved
\* and the progress is computed.  A payload on which the normalization
\* raises ends the run there with a TypeError; a selection that is not a key
\* of concept_map ends it with a KeyError at the side-panel lookup.
\* ------------------------------------------------------------------------
\* The side panel and what follows it, for the selection `selected_concept`
\* the normalization left: the lookup in concept_map, the toggle and its
\* save, and the progress.
SidePanel(s, selected_concept, click, type_error, mark_learned) ==
    \E g \in {grade[s]} :
    \E concepts \in {ALL_DATA[g].concepts} :
    \E concept_map \in {ConceptMap(concepts)} :
    \E shown \in {~type_error /\ Truthy(selected_concept)} :
    \E key_error \in {shown /\ selected_concept.val \notin DOMAIN concept_map} :
    \E toggles \in {shown /\ ~key_error} :
    \E domain \in {IF toggles THEN concept_map[selected_concept.val].domain
                   ELSE <<>>} :
    \E store0 \in {learned_store[s]} :
    \E kind \in {IF toggles
                 THEN ToggleKind(SetDefault(store0[g], domain, <<>>)[domain],
                                 selected_concept.val, mark_learned)
                 ELSE "none"} :
    \E store1 \in {IF toggles
                   THEN ToggleStore(store0, g, domain, selected_concept.val,
                                    mark_learned)
                   ELSE store0} :
    \E item \in {<<g, domain, selected_concept.val>>} :
    \E undo \in {/\ kind = "remove"
                  /\ last.toggled = "add"
                  /\ last.session = s
                  /\ last.grade = g
                  /\ last.concept = selected_concept.val} :
        /\ file' = IF kind # "none" THEN SaveLearnedConcepts(file, store1)
                   ELSE file
        /\ acked' = IF kind = "add"
                     THEN [acked EXCEPT ![s] = @ \cup {item}]
                     ELSE IF kind = "remove"
                     THEN [t \in Sessions |-> acked[t] \ {item}]
                     ELSE acked
        /\ last' =
               [session |-> s, grade |-> g, entry |-> entry[s],
                click |-> click,
                panel |-> IF type_error THEN PyNone ELSE selected_concept,
                outcome |-> IF type_error THEN "TypeError"
                            ELSE IF key_error THEN "KeyError" ELSE "ok",
                toggled |-> kind,
                concept |-> IF toggles THEN selected_concept.val ELSE <<>>,
                domain |-> domain,
                saved |-> kind # "none",
                before |-> ComputeDomainProgress(concepts, store0, g),
                after |-> IF type_error \/ key_error THEN EmptyDict
                          ELSE ComputeDomainProgress(concepts, store1, g),
                undo |-> undo,
                prior |-> IF undo THEN last.before ELSE EmptyDict]

RunFinish(s, selected, mark_learned) ==
    /\ pc[s] = "running"
    /\ \E type_error \in {ClickRaises(selected)} :
       \E selected_concept \in
              {IF type_error THEN Selection(session_state[s])
               ELSE SelectionAfterClick(Selection(session_state[s]), selected)} :
       \E click \in {IF type_error THEN PyNone ELSE NormalizeClick(selected)} :
           /\ session_state' = [session_state EXCEPT ![s] =
                  DictPut(session_state[s], "selected_concept",
                          selected_concept)]
           /\ SidePanel(s, selected_concept, click, type_error, mark_learned)
    /\ pc' = [pc EXCEPT ![s] = "idle"]
    /\ learned_store' = [learned_store EXCEPT ![s] = EmptyDict]
    /\ UNCHANGED <<data_files, ALL_DATA, grade, graph, entry>>
    /\ UNCHANGED <<click_vars, ch7_vars>>

\* ------------------------------------------------------------------------
\* The two-grade dashboard, one session, on a fixed curriculum
\* ------------------------------------------------------------------------
NameA == <<"A">>
NameB == <<"B">>
NameC == <<"C">>
DomainP == <<"P">>
DomainQ == <<"Q">>
StrandS == <<"S">>
StrandT == <<"T">>

\* Grade 7 teaches A and B, grade 8 teaches B (under another domain) and C.
\* A names B and the unknown C; the one activity of grade 7 belongs to A.
Curriculum ==
    [g \in GRADES |->
        IF g = "7"
        THEN [concepts |-> << Concept(NameA, DomainP, StrandS, <<NameB, NameC>>),
                              Concept(NameB, DomainP, StrandT, <<>>) >>,
              activities |-> << Activity(<<"x">>, NameA) >>]
        ELSE [concepts |-> << Concept(NameB, DomainQ, StrandS, <<NameC>>),
                              Concept(NameC, DomainQ, StrandS, <<NameA>>) >>,
              activities |-> <<>>]]

\* The raw shapes of the click payload: an object with a "nodes" list, a bare
\* list, a bare string and an object with a "node" / "id" key.
NodesPayload(ids) ==
    PyDict([nodes |-> PyList([i \in 1..Len(ids) |-> PyStr(ids[i])]),
            edges |-> PyList(<<>>)])
ListPayload(ids) == PyList([i \in 1..Len(ids) |-> PyStr(ids[i])])
StrPayload(id) == PyStr(id)
NodePayload(id) == PyDict([node |-> PyStr(id)])
IdPayload(id) == PyDict([id |-> PyStr(id)])

\* The click payloads of the sessions: the four shapes, over identifiers of
\* the nodes of either grade and a bare name; None, the widget's value when
\* nothing is clicked; and an object whose "nodes" is not a list.
Payloads ==
    {PyNone,
     StrPayload(PREFIX_CONCEPT \o NameA), StrPayload(PREFIX_CONCEPT \o NameB),
     StrPayload(PREFIX_CONCEPT \o NameC), StrPayload(PREFIX_DOMAIN \o DomainP),
     StrPayload(PREFIX_STRAND \o StrandS), StrPayload(NameA),
     NodesPayload(<<PREFIX_CONCEPT \o NameA>>),
     NodesPayload(<<PREFIX_DOMAIN \o DomainQ, PREFIX_CONCEPT \o NameB>>),
     NodesPayload(<<>>),
     ListPayload(<<PREFIX_CONCEPT \o NameB>>), ListPayload(<<>>),
     NodePayload(PREFIX_CONCEPT \o NameA), IdPayload(PREFIX_CONCEPT \o NameC),
     PyDict([nodes |-> PyInt(1)])}

\* No payload is being normalized alone, and the single-grade dashboard has
\* no data and has not run
NoCh7Run ==
    [ran |-> FALSE, activities |-> <<>>, unlinked_activities |-> <<>>,
     nodes |-> <<>>, edges |-> <<>>]

InitClickIdle ==
    /\ click_raw = PyNone
    /\ click_result = <<>>
    /\ ch7_data = [concepts |-> <<>>, activities |-> <<>>]
    /\ ch7_session_state = EmptyDict
    /\ ch7_run = NoCh7Run

Init ==
    /\ ALL_DATA = Curriculum
    /\ data_files = WellFormed(ALL_DATA)
    /\ InitSessions
    /\ InitClickIdle

Next ==
    \/ \E g \in GRADES : RunStart(1, g)
    \/ \E selected \in Payloads, mark_learned \in BOOLEAN :
           RunFinish(1, selected, mark_learned)

Spec == Init /\ [][Next]_vars

\* ------------------------------------------------------------------------
\* Properties of the selection (Spec)
\* ------------------------------------------------------------------------
\* The concept names of the grade of the run that completed last
LastNames == ConceptNames(ALL_DATA[last.grade].concepts)

\* C1: whenever a page run reads the selection slot (the side-panel lookup
\* and the AI-assistant block), its value is null or a concept name of the
\* grade chosen in that run.
C1_SelectionResolves ==
    (last.session # 0 /\ last.outcome # "TypeError")
        => (last.panel = PyNone \/ IsConceptName(last.panel, LastNames))

\* C2: a page run that starts with a selection X that is a concept of the
\* other grade and not of the grade now chosen, and that handles no concept
\* click, renders the side panel with the selection null.
C2_GradeSwitchClears ==
    (/\ last.session # 0
     /\ last.outcome # "TypeError"
     /\ last.entry.kind = "str"
     /\ last.entry.val \notin LastNames
     /\ \E g \in GRADES \ {last.grade} :
            last.entry.val \in ConceptNames(ALL_DATA[g].concepts)
     /\ last.click = PyNone)
        => last.panel = PyNone

\* A run of grade 8 that started with the selection A, a concept of grade 7
\* only, and handled no concept click.
C2_Witness ==
    /\ last.session # 0
    /\ last.outcome = "ok"
    /\ last.grade = "8"
    /\ last.entry = PyStr(NameA)
    /\ last.click = PyNone
    /\ last.panel = PyNone

\* C3: a page run whose click payload does not resolve to a concept of the
\* current grade ends with the selection null.
C3_UnresolvedClickClears ==
    (/\ last.session # 0
     /\ last.outcome # "TypeError"
     /\ ~IsConceptName(last.click, LastNames))
        => last.panel = PyNone

\* ------------------------------------------------------------------------
\* Two sessions on the same learned_concepts.json (SpecConc).  Each session
\* runs its script in its own thread; the file is read at the start of a run
\* and written by a toggle, with no lock around the two.
\* ------------------------------------------------------------------------
ConcPayloads ==
    {PyNone, StrPayload(PREFIX_CONCEPT \o NameA),
     ListPayload(<<PREFIX_CONCEPT \o NameB>>)}

NextConc ==
    \/ \E s \in Sessions : RunStart(s, "7")
    \/ \E s \in Sessions, selected \in ConcPayloads, mark_learned \in BOOLEAN :
           RunFinish(s, selected, mark_learned)

SpecConc == Init /\ [][NextConc]_vars

\* The (grade, domain, concept) entries of a learned store
Entries(store) ==
    UNION {UNION {{<<g, d, store[g][d][i]>> : i \in 1..Len(store[g][d])} :
                     d \in DOMAIN store[g]} :
              g \in DOMAIN store}

\* C5: last write wins.  When a session's toggle saves, an addition that
\* another session has saved, and that this session did not load at the start
\* of its run, is no longer in the file: the save overwrites the whole file
\* with what this session loaded and toggled.
C5_LastWriteWins ==
    [][\A s \in Sessions :
          (pc[s] = "running" /\ pc'[s] = "idle" /\ last'.saved)
              => \A t \in Sessions \ {s} : \A item \in acked[t] :
                     (/\ item \notin Entries(learned_store[s])
                      /\ item # <<last'.grade, last'.domain, last'.concept>>)
                         => item \notin Entries(file'.content)]_vars

\* A lost update: both sessions are idle, each has saved the addition of a
\* different concept, no toggle has removed either, and the file holds only
\* one of the two.
C5_Witness ==
    /\ \A s \in Sessions : pc[s] = "idle"
    /\ \E x \in acked[1], y \in acked[2] :
          /\ x # y
          /\ x \in Entries(file.content) <=> y \notin Entries(file.content)

\* ------------------------------------------------------------------------
\* The graph builder over drawn concept lists (SpecGraph): grade 7 is any
\* list of at most MaxConcepts concepts with distinct names; a domain, a
\* strand and a concept may share a display name.
\* ------------------------------------------------------------------------
GraphNames == {NameA, NameB, NameC}
GraphDomains == {NameA, DomainP}
GraphStrands == {NameA, StrandS}
GraphLinks == {<<>>, <<NameA>>, <<NameB>>, <<NameC>>}

\* Whether the concepts of a list have distinct names (the name is the
\* primary key of a concept)
DistinctNames(concepts) ==
    \A i, j \in 1..Len(concepts) :
        concepts[i].concept_name = concepts[j].concept_name => i = j

GraphConcepts ==
    {Concept(n, d, t, l) :
        n \in GraphNames, d \in GraphDomains, t \in GraphStrands,
        l \in GraphLinks}

GraphConceptLists ==
    {cs \in ListsUpTo(GraphConcepts, MaxConcepts) : DistinctNames(cs)}

\* ALL_DATA with the concepts cs for grade 7
WithGrade7(cs, acts) ==
    [g \in GRADES |->
        IF g = "7" THEN [concepts |-> cs, activities |-> acts]
        ELSE Curriculum[g]]

InitGraph ==
    /\ ALL_DATA \in {WithGrade7(cs, << Activity(<<"x">>, NameA) >>) :
                        cs \in GraphConceptLists}
    /\ data_files = WellFormed(ALL_DATA)
    /\ InitSessions
    /\ InitClickIdle

NextGraph ==
    \/ \E g \in GRADES : RunStart(1, g)
    \/ RunFinish(1, PyNone, FALSE)

SpecGraph == InitGraph /\ [][NextGraph]_vars

\* The number of nodes of a shape
ShapeCount(nodes, shape) ==
    Cardinality({i \in 1..Len(nodes) : nodes[i].shape = shape})

\* C8: the nodes handed to agraph are one per distinct domain, one per
\* distinct (domain, strand) pair and one per concept, and no two of them
\* share an identifier.
C8_OneNodeEachDistinctIds ==
    \A s \in Sessions :
        pc[s] = "running" =>
            LET nodes == graph[s].nodes
                concepts == ALL_DATA[grade[s]].concepts
            IN /\ ShapeCount(nodes, "box")
                      = Cardinality({concepts[i].domain : i \in 1..Len(concepts)})
               /\ ShapeCount(nodes, "ellipse")
                      = Cardinality({<<concepts[i].domain, concepts[i].strand>> :
                                        i \in 1..Len(concepts)})
               /\ ShapeCount(nodes, "dot") = Len(concepts)
               /\ \A d \in {concepts[i].domain : i \in 1..Len(concepts)} :
                      \E i \in 1..Len(nodes) :
                          nodes[i].shape = "box" /\ nodes[i].label = d
               /\ \A i \in 1..Len(concepts) :
                      \E j \in 1..Len(nodes) :
                          /\ nodes[j].shape = "dot"
                          /\ nodes[j].label = concepts[i].concept_name
               /\ \A i, j \in 1..Len(nodes) :
                      nodes[i].id = nodes[j].id => i = j

\* Whether the edge list holds the lateral edge from concept a to concept b
HasLateralEdge(edges, a, b) ==
    \E i \in 1..Len(edges) :
        /\ edges[i].source = PREFIX_CONCEPT \o a
        /\ edges[i].target = PREFIX_CONCEPT \o b
        /\ edges[i].color = "#ff9999"

\* Whether an edge of the list has the concept node of name b at an end
RefersTo(edges, b) ==
    \E i \in 1..Len(edges) :
        \/ edges[i].source = PREFIX_CONCEPT \o b
        \/ edges[i].target = PREFIX_CONCEPT \o b

\* C9: for every concept A of the grade and every name B of A's
\* interconnections, the edges handed to agraph hold the lateral edge from
\* A's node to B's node when B is a concept name of the grade, and hold no
\* edge that refers to B's node when it is not.
C9_InterconnectionEdges ==
    \A s \in Sessions :
        pc[s] = "running" =>
            LET edges == graph[s].edges
                concepts == ALL_DATA[grade[s]].concepts
                names == {concepts[i].concept_name : i \in 1..Len(concepts)}
            IN \A i \in 1..Len(concepts) :
                   \A k \in 1..Len(concepts[i].interconnections) :
                       LET b == concepts[i].interconnections[k]
                       IN IF b \in names
                          THEN HasLateralEdge(edges, concepts[i].concept_name, b)
                          ELSE ~RefersTo(edges, b)

\* The graph of a grade in which A names the concept B and B names C, which
\* is no concept of the grade, was built: it holds the lateral edge from A to
\* B and no edge that refers to C.
C9_Witness ==
    /\ pc[1] = "running"
    /\ grade[1] = "7"
    /\ ALL_DATA["7"].concepts =
           << Concept(NameA, DomainP, StrandS, <<NameB>>),
              Concept(NameB, DomainP, StrandS, <<NameC>>) >>
    /\ HasLateralEdge(graph[1].edges, NameA, NameB)
    /\ ~RefersTo(graph[1].edges, NameC)

\* ------------------------------------------------------------------------
\* The progress over drawn concept lists and drawn contents of the learned
\* file (SpecProgress).  The file outlives the curriculum data it was written
\* for, so its lists may hold names that are no concept of the domain, and a
\* name more than once.
\* ------------------------------------------------------------------------
NameZ == <<"Z">>

ProgressConcepts ==
    {Concept(n, d, StrandS, <<>>) :
        n \in {NameA, NameB, NameC}, d \in {DomainP, DomainQ}}

ProgressConceptLists ==
    {cs \in ListsUpTo(ProgressConcepts, MaxConcepts) : DistinctNames(cs)}

\* The learned file: absent, or holding for grade 7 a list over A and the
\* stale name Z under domain P and nothing or B under domain Q
ProgressFiles ==
    {NoFile}
        \cup {[exists |-> TRUE,
               content |-> [g \in {"7"} |->
                   [d \in {DomainP, DomainQ} |->
                       IF d = DomainP THEN lp ELSE lq]]] :
                 lp \in ListsUpTo({NameA, NameZ}, MaxLearned),
                 lq \in {<<>>, <<NameB>>}}

InitProgress ==
    /\ ALL_DATA \in {WithGrade7(cs, <<>>) : cs \in ProgressConceptLists}
    /\ data_files = WellFormed(ALL_DATA)
    /\ file \in ProgressFiles
    /\ session_state = [s \in Sessions |-> EmptyDict]
    /\ pc = [s \in Sessions |-> "idle"]
    /\ grade = [s \in Sessions |-> ""]
    /\ learned_store = [s \in Sessions |-> EmptyDict]
    /\ graph = [s \in Sessions |-> [nodes |-> <<>>, edges |-> <<>>]]
    /\ entry = [s \in Sessions |-> PyNone]
    /\ last = NoRun
    /\ acked = [s \in Sessions |-> {}]
    /\ InitClickIdle

ProgressPayloads ==
    {PyNone, StrPayload(PREFIX_CONCEPT \o NameA),
     StrPayload(PREFIX_CONCEPT \o NameB)}

NextProgress ==
    \/ RunStart(1, "7")
    \/ \E selected \in ProgressPayloads, mark_learned \in BOOLEAN :
           RunFinish(1, selected, mark_learned)

SpecProgress == InitProgress /\ [][NextProgress]_vars

\* The domains of the concepts of the grade of the run that completed last
LastDomains ==
    {ALL_DATA[last.grade].concepts[i].domain :
        i \in 1..Len(ALL_DATA[last.grade].concepts)}

LastConceptsOf(d) ==
    {ALL_DATA[last.grade].concepts[i].concept_name :
        i \in {j \in 1..Len(ALL_DATA[last.grade].concepts) :
                  ALL_DATA[last.grade].concepts[j].domain = d}}

\* The names the learned file holds under the grade and the domain
LearnedNames(g, d) ==
    IF file.exists /\ g \in DOMAIN file.content /\ d \in DOMAIN file.content[g]
    THEN ListSet(file.content[g][d])
    ELSE {}

\* C7: the progress a run displays has an entry for exactly the domains of
\* the concept list, each 100 * |learned names that are concepts of the
\* domain| / |concepts of the domain| rounded to one decimal, between 0 and
\* 100.
C7_ProgressFormula ==
    (last.session # 0 /\ last.outcome = "ok") =>
        /\ DOMAIN last.after = LastDomains
        /\ \A d \in LastDomains :
               /\ last.after[d] =
                      RoundPercent(
                          Cardinality(LearnedNames(last.grade, d)
                                          \cap LastConceptsOf(d)),
                          Cardinality(LastConceptsOf(d)))
               /\ last.after[d] >= 0
               /\ last.after[d] <= 1000

\* ------------------------------------------------------------------------
\* The click normalization taken alone (SpecClick): a raw payload is drawn,
\* normalized, and the result is normalized again.
\* ------------------------------------------------------------------------
\* What stands for the result of a normalization that raised
Raised == [kind |-> "raised", val |-> <<>>]

\* The outcome of the normalization of a payload
NormalizeOutcome(selected) ==
    IF ClickRaises(selected) THEN Raised ELSE NormalizeClick(selected)

\* Identifiers: tier-prefixed names, a bare name, the empty string, the bare
\* prefix, and names that themselves hold the text "concept::".
ClickIds ==
    {PREFIX_CONCEPT \o NameA, PREFIX_CONCEPT \o NameB,
     PREFIX_DOMAIN \o DomainP, PREFIX_STRAND \o StrandS,
     NameA, <<>>, PREFIX_CONCEPT,
     PREFIX_CONCEPT \o PREFIX_CONCEPT \o NameA,
     PREFIX_CONCEPT \o <<"c", "o", "n">> \o PREFIX_CONCEPT
         \o <<"c", "e", "p", "t", ":", ":">> \o NameA}

\* The payloads drawn: every identifier in each of the four shapes, the empty
\* list and the empty "nodes" list, lists that start with a number, None,
\* and an object whose "nodes" is a number.
ClickInputs ==
    {NodesPayload(<<id>>) : id \in ClickIds}
        \cup {ListPayload(<<id>>) : id \in ClickIds}
        \cup {StrPayload(id) : id \in ClickIds}
        \cup {NodePayload(id) : id \in ClickIds}
        \cup {IdPayload(id) : id \in ClickIds}
        \cup {NodesPayload(<<>>), ListPayload(<<>>), PyNone,
              PyList(<<PyInt(7)>>),
              PyDict([nodes |-> PyList(<<PyInt(7)>>), edges |-> PyList(<<>>)]),
              PyDict([nodes |-> PyInt(1)])}

InitClick ==
    /\ ALL_DATA = Curriculum
    /\ data_files = WellFormed(ALL_DATA)
    /\ InitSessions
    /\ click_raw \in ClickInputs
    /\ click_result = <<>>
    /\ ch7_data = [concepts |-> <<>>, activities |-> <<>>]
    /\ ch7_session_state = EmptyDict
    /\ ch7_run = NoCh7Run

\* The normalization is applied to the payload
NormalizeStep ==
    /\ click_result = <<>>
    /\ click_result' = <<NormalizeOutcome(click_raw)>>
    /\ UNCHANGED <<click_raw, session_vars, ch7_vars>>

\* The normalization is applied to its own result, handed back as it is (a
\* bare string, or None)
RenormalizeStep ==
    /\ Len(click_result) = 1
    /\ click_result[1] # Raised
    /\ click_result' = Append(click_result, NormalizeOutcome(click_result[1]))
    /\ UNCHANGED <<click_raw, session_vars, ch7_vars>>

NextClick == NormalizeStep \/ RenormalizeStep

SpecClick == InitClick /\ [][NextClick]_vars

FourShapes == {"nodes", "list", "str", "node_id"}

\* C4 as stated: the normalization of every payload of the four shapes
\* yields a string or null without raising, and normalizing that result
\* again yields the same result.
C4_TotalAndIdempotent ==
    PayloadShape(click_raw) \in FourShapes
        => /\ \A i \in 1..Len(click_result) :
                  click_result[i].kind \in {"str", "NoneType"}
           /\ Len(click_result) = 2 => click_result[2] = click_result[1]

\* C4 as amended: the normalization of every payload of the four shapes
\* yields a string or null without raising; normalizing a null result yields
\* null, and normalizing a string result that does not itself begin with
\* "concept::" yields null, not that result.
C4_TotalNotIdempotent ==
    PayloadShape(click_raw) \in FourShapes
        => /\ \A i \in 1..Len(click_result) :
                  click_result[i].kind \in {"str", "NoneType"}
           /\ (Len(click_result) = 2 /\ click_result[1] = PyNone)
                  => click_result[2] = PyNone
           /\ (/\ Len(click_result) = 2
               /\ click_result[1].kind = "str"
               /\ ~StartsWith(click_result[1].val, PREFIX_CONCEPT))
                  => click_result[2] = PyNone

\* The bare-list payload ["concept::B"] normalized to "B", and "B" to null.
C4_Witness ==
    /\ click_raw = ListPayload(<<PREFIX_CONCEPT \o NameB>>)
    /\ click_result = <<PyStr(NameB), PyNone>>

\* ------------------------------------------------------------------------
\* The single-grade dashboard (SpecCh7)
\* ------------------------------------------------------------------------
\* isinstance(a, dict) and "activity_name" in a and "parent_concept" in a
IsCleanActivity(a) ==
    /\ a.kind = "dict"
    /\ "activity_name" \in DOMAIN a.val
    /\ "parent_concept" \in DOMAIN a.val

\* activities: the records of raw_activities the cleaning keeps, in order
RECURSIVE Ch7CleanFrom(_, _)
Ch7CleanFrom(raw_activities, i) ==
    IF i > Len(raw_activities) THEN <<>>
    ELSE IF IsCleanActivity(raw_activities[i])
         THEN <<i>> \o Ch7CleanFrom(raw_activities, i + 1)
         ELSE Ch7CleanFrom(raw_activities, i + 1)

Ch7Activities(raw_activities) == Ch7CleanFrom(raw_activities, 1)

\* a["parent_concept"] not in concept_names
Ch7IsUnlinked(a, concept_names) ==
    ~IsConceptName(a.val["parent_concept"], concept_names)

\* unlinked_activities = [a for a in activities
\*                        if a["parent_concept"] not in concept_names]
RECURSIVE Ch7Unlinked(_, _, _)
Ch7Unlinked(raw_activities, activities, concept_names) ==
    IF activities = <<>> THEN <<>>
    ELSE IF Ch7IsUnlinked(raw_activities[Head(activities)], concept_names)
         THEN <<Head(activities)>>
                  \o Ch7Unlinked(raw_activities, Tail(activities), concept_names)
         ELSE Ch7Unlinked(raw_activities, Tail(activities), concept_names)

\* nodes: one per concept, the name as the identifier
Ch7Nodes(concepts) ==
    [i \in 1..Len(concepts) |->
        [id |-> concepts[i].concept_name, label |-> concepts[i].concept_name]]

\* edges: one per interconnection that names a concept
Ch7Edges(concepts) ==
    LET names == {concepts[i].concept_name : i \in 1..Len(concepts)}
        OfConcept(c) ==
            Flatten([j \in 1..Len(c.interconnections) |->
                IF c.interconnections[j] \in names
                THEN << [source |-> c.concept_name,
                         target |-> c.interconnections[j]] >>
                ELSE <<>>])
    IN Flatten([i \in 1..Len(concepts) |-> OfConcept(concepts[i])])

\* normalized_selection, after the if / elif / elif
Ch7Normalize(selected) ==
    IF selected.kind = "dict"
    THEN IF Truthy(IF "nodes" \in DOMAIN selected.val
                   THEN selected.val["nodes"] ELSE PyList(<<>>))
         THEN FirstItem(selected.val["nodes"])
         ELSE PyNone
    ELSE IF selected.kind = "list" /\ Truthy(selected)
    THEN FirstItem(selected)
    ELSE IF selected.kind = "str" THEN selected
    ELSE PyNone

\* The selection stored at the end of the run: the normalized selection when
\* it is a concept name, None otherwise
Ch7Selection(normalized_selection, concept_names) ==
    IF Truthy(normalized_selection)
           /\ IsConceptName(normalized_selection, concept_names)
    THEN normalized_selection
    ELSE PyNone

\* A page run of the single-grade dashboard: the whole script
Ch7PageRun(selected) ==
    /\ \E concepts \in {ch7_data.concepts} :
       \E raw_activities \in {ch7_data.activities} :
       \E concept_names \in
              {{concepts[i].concept_name : i \in 1..Len(concepts)}} :
       \E activities \in {Ch7Activities(raw_activities)} :
           /\ ch7_run' =
                  [ran |-> TRUE,
                   activities |-> activities,
                   unlinked_activities |->
                       Ch7Unlinked(raw_activities, activities, concept_names),
                   nodes |-> Ch7Nodes(concepts),
                   edges |-> Ch7Edges(concepts)]
           /\ ch7_session_state' =
                  DictPut(ch7_session_state, "selected_concept",
                          Ch7Selection(Ch7Normalize(selected), concept_names))
    /\ UNCHANGED <<ch7_data, session_vars, click_vars>>

\* The records a raw activity list may hold: an activity of the concept A,
\* one of the unknown concept Z, one of Z without a name, one without a
\* parent reference, and a string
Ch7RawActivities ==
    {Activity(<<"x">>, NameA), Activity(<<"y">>, NameZ),
     PyDict([parent_concept |-> PyStr(NameZ)]),
     PyDict([activity_name |-> PyStr(<<"w">>)]),
     PyStr(<<"n">>)}

Ch7ConceptLists ==
    {<<>>,
     << Concept(NameA, DomainP, StrandS, <<NameB>>) >>,
     << Concept(NameA, DomainP, StrandS, <<NameB, NameZ>>),
        Concept(NameB, DomainP, StrandS, <<>>) >>}

Ch7Payloads ==
    {PyNone, StrPayload(NameA), StrPayload(NameZ), NodesPayload(<<NameB>>),
     NodesPayload(<<>>), ListPayload(<<NameA>>)}

InitCh7 ==
    /\ ALL_DATA = Curriculum
    /\ data_files = WellFormed(ALL_DATA)
    /\ InitSessions
    /\ click_raw = PyNone
    /\ click_result = <<>>
    /\ ch7_data \in {[concepts |-> cs, activities |-> acts] :
                        cs \in Ch7ConceptLists,
                        acts \in ListsUpTo(Ch7RawActivities, MaxActivities)}
    /\ ch7_session_state = EmptyDict
    /\ ch7_run = NoCh7Run

NextCh7 == \E selected \in Ch7Payloads : Ch7PageRun(selected)

SpecCh7 == InitCh7 /\ [][NextCh7]_vars

\* How often the record at position i is in a list of positions
Occurrences(positions, i) ==
    Cardinality({k \in 1..Len(positions) : positions[k] = i})

\* Whether an activity record carries a parent reference that matches no
\* concept name
HasUnresolvedParent(a, concept_names) ==
    /\ a.kind = "dict"
    /\ "parent_concept" \in DOMAIN a.val
    /\ ~IsConceptName(a.val["parent_concept"], concept_names)

\* C10: after every page run, every activity record of the input whose
\* parent reference matches no concept name is in the unlinked-activities
\* report exactly once.
C10_UnlinkedReportedOnce ==
    ch7_run.ran =>
        \A i \in 1..Len(ch7_data.activities) :
            HasUnresolvedParent(ch7_data.activities[i],
                {ch7_data.concepts[k].concept_name :
                    k \in 1..Len(ch7_data.concepts)})
                => Occurrences(ch7_run.unlinked_activities, i) = 1

\* ------------------------------------------------------------------------
\* The load of the curriculum data (SpecLoad): each grade's data file is
\* well-formed, absent or malformed, and the cache is empty at first.
\* ------------------------------------------------------------------------
DataFileStates(g) == {DataFile(Curriculum[g]), AbsentFile, MalformedFile}

InitLoad ==
    /\ data_files \in {[g \in GRADES |-> IF g = "7" THEN f7 ELSE f8] :
                          f7 \in DataFileStates("7"),
                          f8 \in DataFileStates("8")}
    /\ ALL_DATA = NotLoaded
    /\ InitSessions
    /\ InitClickIdle

NextLoad ==
    \/ \E g \in GRADES : RunLoad(1, g)
    \/ \E g \in GRADES : RunStart(1, g)
    \/ \E selected \in ConcPayloads, mark_learned \in BOOLEAN :
           RunFinish(1, selected, mark_learned)

SpecLoad == InitLoad /\ [][NextLoad]_vars

LoadErrors == {"FileNotFoundError", "JSONDecodeError"}

\* C11: a page run that chooses a grade whose data file is well-formed is
\* served: it does not end in the error of the load of a data file, whatever
\* the state of the other grade's file.
C11_GradesLoadIndependently ==
    (last.session # 0 /\ data_files[last.grade].status = "ok")
        => last.outcome \notin LoadErrors

\* ------------------------------------------------------------------------
\* The learned flag as a two-state machine (Spec)
\* ------------------------------------------------------------------------
\* The list a learned store holds under a grade and a domain, empty when it
\* holds none
StoredList(store, g, d) ==
    IF g \in DOMAIN store /\ d \in DOMAIN store[g] THEN store[g][d] ELSE <<>>

\* The list without the name
Without(lst, name) ==
    LET keep == {i \in 1..Len(lst) : lst[i] # name}
        Nth(k) == CHOOSE i \in keep : Cardinality({j \in keep : j < i}) = k - 1
    IN [k \in 1..Cardinality(keep) |-> lst[Nth(k)]]

\* No list of the learned file holds a name twice
AtMostOnce ==
    \A g \in DOMAIN LoadLearnedConcepts(file) :
        \A d \in DOMAIN LoadLearnedConcepts(file)[g] :
            LET lst == LoadLearnedConcepts(file)[g][d]
            IN \A i, j \in 1..Len(lst) : lst[i] = lst[j] => i = j

\* What a second half of a page run of session 1, with the checkbox
\* returning mark_learned, does to the learned file
ToggleEffect(mark_learned) ==
    IF last'.outcome = "ok" /\ Truthy(last'.panel)
    THEN LET c == last'.panel.val
             g == grade[1]
             d == ConceptMap(ALL_DATA[g].concepts)[c].domain
             lst == StoredList(learned_store[1], g, d)
             learned == \E i \in 1..Len(lst) : lst[i] = c
         IN IF mark_learned = learned
            THEN file' = file /\ ~last'.saved /\ last'.toggled = "none"
            ELSE /\ last'.saved
                 /\ file'.exists
                 /\ StoredList(file'.content, g, d) =
                        IF mark_learned THEN lst \o <<c>> ELSE Without(lst, c)
    ELSE file' = file /\ ~last'.saved

\* C12: in a page run where the checkbox value equals the learned state of
\* the selected concept, the learned file is not written and its lists are
\* unchanged; a run writes the file only when the checkbox value differs
\* from the learned state, and then the list of the concept's domain gains
\* or loses the concept; and no list of the file ever holds a concept twice.
C12_ToggleIdempotent ==
    /\ [][\A selected \in Payloads, mark_learned \in BOOLEAN :
              RunFinish(1, selected, mark_learned)
                  => ToggleEffect(mark_learned)]_vars
    /\ []AtMostOnce

\* A run showed the side panel of a concept that the file holds as learned,
\* with the checkbox checked, and wrote nothing.
C12_Witness ==
    /\ last.outcome = "ok"
    /\ Truthy(last.panel)
    /\ last.toggled = "none"
    /\ ~last.saved
    /\ last.grade \in DOMAIN LoadLearnedConcepts(file)
    /\ \E d \in DOMAIN LoadLearnedConcepts(file)[last.grade] :
           \E i \in 1..Len(LoadLearnedConcepts(file)[last.grade][d]) :
               LoadLearnedConcepts(file)[last.grade][d][i] = last.panel.val

\* ------------------------------------------------------------------------
\* The learned file under the runs of one session (SpecStore): the file is
\* absent at first, or holds the empty document.
\* ------------------------------------------------------------------------
EmptyFile == [exists |-> TRUE, content |-> EmptyDict]

InitStore ==
    /\ ALL_DATA = Curriculum
    /\ data_files = WellFormed(ALL_DATA)
    /\ file \in {NoFile, EmptyFile}
    /\ session_state = [s \in Sessions |-> EmptyDict]
    /\ pc = [s \in Sessions |-> "idle"]
    /\ grade = [s \in Sessions |-> ""]
    /\ learned_store = [s \in Sessions |-> EmptyDict]
    /\ graph = [s \in Sessions |-> [nodes |-> <<>>, edges |-> <<>>]]
    /\ entry = [s \in Sessions |-> PyNone]
    /\ last = NoRun
    /\ acked = [s \in Sessions |-> {}]
    /\ InitClickIdle

NextStore ==
    \/ \E g \in GRADES : RunStart(1, g)
    \/ \E selected \in Payloads, mark_learned \in BOOLEAN :
           RunFinish(1, selected, mark_learned)

SpecStore == InitStore /\ [][NextStore]_vars

\* Whether the name is a concept of the grade whose domain is d
IsConceptOf(name, g, d) ==
    /\ g \in GRADES
    /\ \E k \in 1..Len(ALL_DATA[g].concepts) :
           /\ ALL_DATA[g].concepts[k].concept_name = name
           /\ ALL_DATA[g].concepts[k].domain = d

\* C13: every name the learned file holds under a grade g and a domain d is
\* a concept of grade g whose domain is d.
C13_StoredNamesAreConcepts ==
    \A g \in DOMAIN LoadLearnedConcepts(file) :
        \A d \in DOMAIN LoadLearnedConcepts(file)[g] :
            \A i \in 1..Len(LoadLearnedConcepts(file)[g][d]) :
                IsConceptOf(LoadLearnedConcepts(file)[g][d][i], g, d)

\* The file holds B, which both grades teach, under its domain P of grade 7
\* and under its domain Q of grade 8.
C13_Witness ==
    /\ file.exists
    /\ StoredList(file.content, "7", DomainP) = <<NameB>>
    /\ StoredList(file.content, "8", DomainQ) = <<NameB>>

\* ------------------------------------------------------------------------
\* A save that fails (SpecSaveFail): open(LEARNED_FILE, "w") raises an
\* OSError (the disk or a lock refuses the write), so the file keeps its
\* content.
\* ------------------------------------------------------------------------
\* The second half of a page run whose toggle reaches save_learned_concepts
\* and whose save raises: the list was appended to, or removed from, on the
\* line before the save; the exception ends the run there, with the script's
\* learned_store as the toggle left it, and the progress is not computed.
RunFinishSaveFails(s, selected, mark_learned) ==
    /\ pc[s] = "running"
    /\ ~ClickRaises(selected)
    /\ \E g \in {grade[s]} :
       \E concepts \in {ALL_DATA[g].concepts} :
       \E concept_map \in {ConceptMap(concepts)} :
       \E selected_concept \in
              {SelectionAfterClick(Selection(session_state[s]), selected)} :
           /\ Truthy(selected_concept)
           /\ selected_concept.val \in DOMAIN concept_map
           /\ \E domain \in {concept_map[selected_concept.val].domain} :
              \E store0 \in {learned_store[s]} :
              \E kind \in {ToggleKind(SetDefault(store0[g], domain, <<>>)[domain],
                                      selected_concept.val, mark_learned)} :
                  /\ kind # "none"
                  /\ session_state' = [session_state EXCEPT ![s] =
                         DictPut(session_state[s], "selected_concept",
                                 selected_concept)]
                  /\ learned_store' = [learned_store EXCEPT ![s] =
                         ToggleStore(store0, g, domain, selected_concept.val,
                                     mark_learned)]
                  /\ last' = [NoRun EXCEPT
                                 !.session = s, !.grade = g,
                                 !.entry = entry[s],
                                 !.click = NormalizeClick(selected),
                                 !.panel = selected_concept,
                                 !.outcome = "OSError",
                                 !.toggled = kind,
                                 !.concept = selected_concept.val,
                                 !.domain = domain,
                                 !.before =
                                     ComputeDomainProgress(concepts, store0, g)]
    /\ pc' = [pc EXCEPT ![s] = "idle"]
    /\ UNCHANGED <<data_files, ALL_DATA, file, grade, graph, entry, acked>>
    /\ UNCHANGED <<click_vars, ch7_vars>>

NextSaveFail ==
    \/ \E g \in GRADES : RunStart(1, g)
    \/ \E selected \in ConcPayloads, mark_learned \in BOOLEAN :
           RunFinish(1, selected, mark_learned)
    \/ \E selected \in ConcPayloads, mark_learned \in BOOLEAN :
           RunFinishSaveFails(1, selected, mark_learned)

SpecSaveFail == Init /\ [][NextSaveFail]_vars

\* C14: when the save of a toggle fails, the script's learned store holds
\* the entries it held before the toggle: the addition or removal is not
\* applied in memory without having been persisted.
C14_FailedSaveLeavesStore ==
    [][\A s \in Sessions :
          (pc[s] = "running" /\ pc'[s] = "idle" /\ last'.outcome = "OSError")
              => /\ Entries(learned_store'[s]) = Entries(learned_store[s])
                 /\ Entries(learned_store'[s])
                        = Entries(LoadLearnedConcepts(file'))]_vars

\* ------------------------------------------------------------------------
\* Clicks on the nodes of the graph that was built (SpecRoundTrip): grade 7
\* is any list of at most MaxConcepts concepts with distinct names, among
\* them names that hold the text "concept::", and every click payload
\* carries the identifier of a node of the graph handed to agraph.
\* ------------------------------------------------------------------------
RoundTripNames ==
    {NameA, NameB, PREFIX_CONCEPT \o NameA, NameA \o PREFIX_CONCEPT \o NameB}

RoundTripConceptLists ==
    {cs \in ListsUpTo({Concept(n, DomainP, StrandS, <<>>) : n \in RoundTripNames},
                      MaxConcepts) : DistinctNames(cs)}

InitRoundTrip ==
    /\ ALL_DATA \in {WithGrade7(cs, <<>>) : cs \in RoundTripConceptLists}
    /\ data_files = WellFormed(ALL_DATA)
    /\ InitSessions
    /\ InitClickIdle

\* The shapes in which agraph may hand back the identifier of a node
NodeClicks(id) == {StrPayload(id), ListPayload(<<id>>), NodesPayload(<<id>>)}

\* The second half of a page run in which agraph hands back the identifier
\* of the i-th node of the graph it was given
ClickNode(s, i, mark_learned) ==
    \E selected \in NodeClicks(graph[s].nodes[i].id) :
        RunFinish(s, selected, mark_learned)

NextRoundTrip ==
    \/ RunStart(1, "7")
    \/ \E i \in 1..Len(graph[1].nodes), mark_learned \in BOOLEAN :
           ClickNode(1, i, mark_learned)

SpecRoundTrip == InitRoundTrip /\ [][NextRoundTrip]_vars

\* C15: the second half of a page run whose click payload carries the
\* identifier the graph builder gave the node of a concept C sets the
\* selection to exactly C.
C15_NodeIdRoundTrip ==
    [][\A i \in 1..Len(graph[1].nodes) :
          (/\ graph[1].nodes[i].shape = "dot"
           /\ \E mark_learned \in BOOLEAN : ClickNode(1, i, mark_learned))
              => Selection(session_state'[1]) = PyStr(graph[1].nodes[i].label)]_vars
====
